---------------------------- MODULE Spec2Model ----------------------------
(***************************************************************************)
(* Model of the governance-scoring engines of source.py (tier_model,       *)
(* apply_ethical_checklist) and of the Streamlit session of app.py that    *)
(* composes them (Ethical Checklist page, Final Report page).              *)
(*                                                                         *)
(* Units.  TLA+ has no reals, so two quantities are carried in scaled      *)
(* integers:                                                               *)
(*   - financial_impact_usd is counted in 1/FinScale dollars, so that      *)
(*     non-integral amounts around the thresholds are inputs too;          *)
(*   - checklist points are counted in half points (weight * 0.5 is the    *)
(*     integer weight, a full weight is 2 * weight).  Every value the code *)
(*     computes is a multiple of 0.5 below 2^53, hence exact in a float.   *)
(*   - score_percentage is the exact rational [num, den]; the code's float *)
(*     score / max_score * 100 differs from it by less than 1e-13, and for *)
(*     the table of source.py the only percentage that meets a grade       *)
(*     threshold is 16.5 / 22 * 100, which the float arithmetic gives as   *)
(*     exactly 75.0 (0.75 is representable and the division is correctly   *)
(*     rounded), so comparing the rational is comparing the float.         *)
(***************************************************************************)
EXTENDS Integers, Sequences, FiniteSets, TLC

VARIABLES
    \* --- tier_model / compute_tier_breakdown called on one profile
    profile,          \* the arguments of the call
    tier_out,         \* outcome of tier_model(**profile), or NotCalled
    breakdown_out,    \* outcome of compute_tier_breakdown(profile), or NotCalled
    tier_again,       \* outcome of another tier_model call on the same attributes
    \* --- get_model_tiers_dataframe called on one list of profiles
    batch,            \* the list passed in
    batch_out,        \* outcome of get_model_tiers_dataframe(batch), or NotCalled
    \* --- apply_ethical_checklist called on one answer mapping
    checklist,        \* the module-level ETHICAL_CHECKLIST list the function reads
    answers,          \* the dict passed in: sequence of <<id, answer>> in insertion order
    checklist_out,    \* outcome of apply_ethical_checklist, or NotCalled
    answers_up,       \* the same mapping with one answer raised by one level
    checklist_up,     \* outcome of apply_ethical_checklist on answers_up, or NotCalled
    \* --- the Streamlit session of app.py
    current_page,                 \* st.session_state.current_page
    tier_df,                      \* st.session_state.tier_df
    tier_breakdown_df,            \* st.session_state.tier_breakdown_df
    ethical_evaluation_results,   \* st.session_state.ethical_evaluation_results
    selected_model,               \* page 3: the model selectbox
    recommendation,               \* page 3: the recommendation shown
    pillar_diagnostic,            \* page 3: the data of the pillar radar chart
    report_recs                   \* page 7: the recommendation shown per model

vars == <<profile, tier_out, breakdown_out, tier_again, batch, batch_out, checklist, answers, checklist_out,
          answers_up, checklist_up,
          current_page, tier_df, tier_breakdown_df, ethical_evaluation_results,
          selected_model, recommendation, pillar_diagnostic, report_recs>>

batchVars == <<batch, batch_out>>
tierVars == <<profile, tier_out, breakdown_out, tier_again, batchVars>>
upgradeVars == <<answers_up, checklist_up>>
checklistVars == <<checklist, answers, checklist_out, upgradeVars>>
sessionVars == <<current_page, tier_df, tier_breakdown_df, ethical_evaluation_results,
                 selected_model, recommendation, pillar_diagnostic, report_recs>>

NotCalled == [kind |-> "not_called"]
None == "None"

(***************************************************************************)
(* Bounds of the model.                                                    *)
(***************************************************************************)
\* financial_impact_usd is counted in units of 1/FinScale dollar
FinScale == 2
\* amounts within MaxDelta units of each threshold are inputs
MaxDelta == 1
\* answer mappings in arbitrary insertion order have at most MaxEntries entries
MaxEntries == 2
\* session: at most MaxEvaluated models are evaluated in one session
MaxEvaluated == 2
\* the lists passed to get_model_tiers_dataframe hold at most MaxBatch profiles
MaxBatch == 3

(***************************************************************************)
(* Python dict lookup: d[key] raises KeyError(key) when key is absent.     *)
(***************************************************************************)
KeyError(key) == [kind |-> "KeyError", key |-> key]

Raised(out) == out.kind \notin {"not_called", "return"}

(***************************************************************************)
(* source.py: tier_model                                                   *)
(***************************************************************************)
\* the dict literal of lines 98-99
DecisionImpactScore ==
    [informational |-> 1, advisory |-> 2, recommendation |-> 3,
     automated_decision |-> 4, autonomous_action |-> 5]

\* the dict literal of lines 103-105
AutonomyScore ==
    [human_executes |-> 1, human_approves |-> 2, human_monitors |-> 3,
     human_reviews_after |-> 4, fully_autonomous |-> 5]

RegulatoryScore_FromOne ==
    [none |-> 1, general |-> 2, sector_specific |-> 3, high_risk_regulated |-> 4]

\* the dict literal of lines 109-110
RegulatoryScore ==
    [none |-> 0, general |-> 1, sector_specific |-> 2, high_risk_regulated |-> 3]

ClientFacingScore_One(client_facing) == IF client_facing THEN 1 ELSE 0

\* line 113
ClientFacingScore(client_facing) == IF client_facing THEN 2 ELSE 0

FinancialScore_Geq(financial_impact_usd) ==
    IF financial_impact_usd >= 10000000 * FinScale THEN 3
    ELSE IF financial_impact_usd >= 1000000 * FinScale THEN 2
    ELSE IF financial_impact_usd >= 100000 * FinScale THEN 1
    ELSE 0

\* lines 116-118
FinancialScore(financial_impact_usd) ==
    IF financial_impact_usd > 10000000 * FinScale THEN 3
    ELSE IF financial_impact_usd > 1000000 * FinScale THEN 2
    ELSE IF financial_impact_usd > 100000 * FinScale THEN 1
    ELSE 0

TierOfScore_Shifted(score) == IF score > 10 THEN 1 ELSE IF score >= 6 THEN 2 ELSE 3

\* line 120
TierOfScore(score) == IF score >= 10 THEN 1 ELSE IF score >= 6 THEN 2 ELSE 3

\* the dict literal of lines 123-127
GovernanceRequirements(tier) ==
    CASE tier = 1 -> "Full validation + bias + XAI + committee approval + annual review"
      [] tier = 2 -> "Validation + monitoring + manager approval + biennial review"
      [] tier = 3 -> "Documentation + basic testing + self-certification + triennial review"

tier_model_NameDependent(model_name, decision_impact, autonomy_level, regulatory_exposure, client_facing, financial_impact_usd) ==
    IF decision_impact \notin DOMAIN DecisionImpactScore THEN KeyError(decision_impact)
    ELSE IF autonomy_level \notin DOMAIN AutonomyScore THEN KeyError(autonomy_level)
    ELSE IF regulatory_exposure \notin DOMAIN RegulatoryScore THEN KeyError(regulatory_exposure)
    ELSE
        LET score == DecisionImpactScore[decision_impact]
                     + AutonomyScore[autonomy_level]
                     + RegulatoryScore[regulatory_exposure]
                     + ClientFacingScore(client_facing /\ model_name = "Credit Default XGBoost")
                     + FinancialScore(financial_impact_usd)
            tier == TierOfScore(score)
        IN  [kind |-> "return", model |-> model_name, score |-> score, tier |-> tier,
             governance_requirements |-> GovernanceRequirements(tier)]

tier_model_NoClientBonus(model_name, decision_impact, autonomy_level, regulatory_exposure, client_facing, financial_impact_usd) ==
    IF decision_impact \notin DOMAIN DecisionImpactScore THEN KeyError(decision_impact)
    ELSE IF autonomy_level \notin DOMAIN AutonomyScore THEN KeyError(autonomy_level)
    ELSE IF regulatory_exposure \notin DOMAIN RegulatoryScore THEN KeyError(regulatory_exposure)
    ELSE
        LET score == DecisionImpactScore[decision_impact]
                     + AutonomyScore[autonomy_level]
                     + RegulatoryScore[regulatory_exposure]
                     + FinancialScore(financial_impact_usd)
            tier == TierOfScore(score)
        IN  [kind |-> "return", model |-> model_name, score |-> score, tier |-> tier,
             governance_requirements |-> GovernanceRequirements(tier)]

\* lines 73-127; the three subscripts are evaluated in source order, the
\* first absent key raises
tier_model(model_name, decision_impact, autonomy_level, regulatory_exposure, client_facing, financial_impact_usd) ==
    IF decision_impact \notin DOMAIN DecisionImpactScore THEN KeyError(decision_impact)
    ELSE IF autonomy_level \notin DOMAIN AutonomyScore THEN KeyError(autonomy_level)
    ELSE IF regulatory_exposure \notin DOMAIN RegulatoryScore THEN KeyError(regulatory_exposure)
    ELSE
        LET score == DecisionImpactScore[decision_impact]
                     + AutonomyScore[autonomy_level]
                     + RegulatoryScore[regulatory_exposure]
                     + ClientFacingScore(client_facing)
                     + FinancialScore(financial_impact_usd)
            tier == TierOfScore(score)
        IN  [kind |-> "return", model |-> model_name, score |-> score, tier |-> tier,
             governance_requirements |-> GovernanceRequirements(tier)]

(***************************************************************************)
(* app.py: compute_tier_breakdown, with its own copies of the tables       *)
(***************************************************************************)
DECISION_IMPACT_POINTS ==
    [informational |-> 1, advisory |-> 2, recommendation |-> 3,
     automated_decision |-> 4, autonomous_action |-> 5]

AUTONOMY_POINTS ==
    [human_executes |-> 1, human_approves |-> 2, human_monitors |-> 3,
     human_reviews_after |-> 4, fully_autonomous |-> 5]

REGULATORY_POINTS ==
    [none |-> 0, general |-> 1, sector_specific |-> 2, high_risk_regulated |-> 3]

\* float(model["financial_impact_usd"]): every amount of the model is below
\* 2^53 and a multiple of 1/FinScale dollar; for FinScale a power of two the
\* conversion is exact, otherwise it moves the amount by less than 1e-7 of
\* a unit, never across a threshold (thresholds are whole dollars)
ToFloat(amount) == amount

BreakdownFinancial_Geq(fin) ==
    IF fin >= 10000000 * FinScale THEN 3
    ELSE IF fin >= 1000000 * FinScale THEN 2
    ELSE IF fin >= 100000 * FinScale THEN 1
    ELSE 0

\* lines 76-84
BreakdownFinancial(fin) ==
    IF fin > 10000000 * FinScale THEN 3
    ELSE IF fin > 1000000 * FinScale THEN 2
    ELSE IF fin > 100000 * FinScale THEN 1
    ELSE 0

\* lines 69-95
compute_tier_breakdown(model) ==
    IF model.decision_impact \notin DOMAIN DECISION_IMPACT_POINTS
        THEN KeyError(model.decision_impact)
    ELSE IF model.autonomy_level \notin DOMAIN AUTONOMY_POINTS
        THEN KeyError(model.autonomy_level)
    ELSE IF model.regulatory_exposure \notin DOMAIN REGULATORY_POINTS
        THEN KeyError(model.regulatory_exposure)
    ELSE
        LET s_impact == DECISION_IMPACT_POINTS[model.decision_impact]
            s_autonomy == AUTONOMY_POINTS[model.autonomy_level]
            s_reg == REGULATORY_POINTS[model.regulatory_exposure]
            s_client == IF model.client_facing THEN 2 ELSE 0
            s_fin == BreakdownFinancial(ToFloat(model.financial_impact_usd))
        IN  [kind |-> "return", Model |-> model.model_name,
             S_impact |-> s_impact, S_autonomy |-> s_autonomy,
             S_regulatory |-> s_reg, S_client_facing |-> s_client,
             S_financial_impact |-> s_fin,
             S_total |-> s_impact + s_autonomy + s_reg + s_client + s_fin]

(***************************************************************************)
(* source.py: ETHICAL_CHECKLIST and apply_ethical_checklist                *)
(***************************************************************************)
\* lines 6-17
ETHICAL_CHECKLIST == <<
    [id |-> 1, question |-> "Could errors significantly harm clients or stakeholders?",
     pillar |-> "Reliability", weight |-> 3],
    [id |-> 2, question |-> "Has the model been tested for demographic bias?",
     pillar |-> "Fairness", weight |-> 3],
    [id |-> 3, question |-> "Can the model explain its individual decisions?",
     pillar |-> "Transparency", weight |-> 2],
    [id |-> 4, question |-> "Is there a process for human review of outputs?",
     pillar |-> "Accountability", weight |-> 3],
    [id |-> 5, question |-> "Has the model been stress-tested under adverse conditions?",
     pillar |-> "Reliability", weight |-> 2],
    [id |-> 6, question |-> "Is all AI-generated content labeled as such?",
     pillar |-> "Transparency", weight |-> 1],
    [id |-> 7, question |-> "Does the model use customer data with proper consent?",
     pillar |-> "Privacy", weight |-> 2],
    [id |-> 8, question |-> "Is there an incident response plan if the model fails?",
     pillar |-> "Accountability", weight |-> 2],
    [id |-> 9, question |-> "Has an independent team validated the model?",
     pillar |-> "Reliability", weight |-> 2],
    [id |-> 10, question |-> "Are model decisions logged for audit?",
     pillar |-> "Accountability", weight |-> 2] >>

\* a Python dict is a sequence of <<key, value>> pairs with distinct keys,
\* kept in insertion order
DictKeys(d) == {d[i][1] : i \in 1..Len(d)}

DictGet_DefaultYes(d, key, default) ==
    IF key \in DictKeys(d)
    THEN d[CHOOSE i \in 1..Len(d) : d[i][1] = key][2]
    ELSE "yes"

\* dict.get(key, default), line 148
DictGet(d, key, default) ==
    IF key \in DictKeys(d)
    THEN d[CHOOSE i \in 1..Len(d) : d[i][1] = key][2]
    ELSE default

PointsEarned_PartialFull(weight, ans) ==
    IF ans = "yes" THEN 2 * weight
    ELSE IF ans = "partial" THEN 2 * weight
    ELSE 0

PointsEarned_PartialZero(weight, ans) ==
    IF ans = "yes" THEN 2 * weight ELSE 0

PointsEarned_Swapped(weight, ans) ==
    IF ans = "yes" THEN weight
    ELSE IF ans = "partial" THEN 2 * weight
    ELSE 0

\* line 149, in half points: weight, weight * 0.5, 0
PointsEarned(weight, ans) ==
    IF ans = "yes" THEN 2 * weight
    ELSE IF ans = "partial" THEN weight
    ELSE 0

\* lines 147-152: one entry of results_details per question, in table order
ResultsDetails(table, d) ==
    [i \in 1..Len(table) |->
        LET q == table[i]
            ans == DictGet(d, q.id, "no")
        IN  [id |-> q.id, question |-> q.question, pillar |-> q.pillar,
             weight |-> q.weight, answer |-> ans,
             points_earned |-> PointsEarned(q.weight, ans)]]

RECURSIVE SumPoints(_, _)
\* score += pts over the first n questions (line 150)
SumPoints(details, n) ==
    IF n = 0 THEN 0 ELSE SumPoints(details, n - 1) + details[n].points_earned

RECURSIVE SumWeights_OffByOne(_, _)
SumWeights_OffByOne(table, n) ==
    IF n <= 1 THEN 0 ELSE SumWeights_OffByOne(table, n - 1) + 2 * table[n].weight

RECURSIVE SumWeights(_, _)
\* max_score += q['weight'] over the first n questions (line 151), in half points
SumWeights(table, n) ==
    IF n = 0 THEN 0 ELSE SumWeights(table, n - 1) + 2 * table[n].weight

Percentage_Fraction(score, max_score) ==
    IF max_score > 0 THEN [num |-> score, den |-> max_score]
    ELSE [num |-> 0, den |-> 1]

\* line 154: score / max_score * 100 as an exact rational, 0 when max_score is 0
Percentage(score, max_score) ==
    IF max_score > 0 THEN [num |-> score * 100, den |-> max_score]
    ELSE [num |-> 0, den |-> 1]

\* pct >= t for an integer t
PctGeq(pct, t) == pct.num >= t * pct.den

Grade_StrictB(pct) ==
    IF PctGeq(pct, 90) THEN "A"
    ELSE IF pct.num > 75 * pct.den THEN "B"
    ELSE IF PctGeq(pct, 60) THEN "C"
    ELSE "F"

\* line 155
Grade(pct) ==
    IF PctGeq(pct, 90) THEN "A"
    ELSE IF PctGeq(pct, 75) THEN "B"
    ELSE IF PctGeq(pct, 60) THEN "C"
    ELSE "F"

Reverse(s) == [i \in 1..Len(s) |-> s[Len(s) + 1 - i]]

Gaps_AnswerOrder(details, d) ==
    LET IsGap(r) == r.answer # "yes"
        given == SelectSeq([i \in 1..Len(d) |->
                              CHOOSE r \in {details[j] : j \in 1..Len(details)} :
                                  r.id = d[i][1]], IsGap)
        missing == SelectSeq(details, LAMBDA r : IsGap(r) /\ r.id \notin DictKeys(d))
    IN  given \o missing

Gaps_OnlyNo(details, d) == SelectSeq(details, LAMBDA r : r.answer = "no")

\* line 157: the entries of results_details whose answer is not 'yes'
Gaps(details, d) == SelectSeq(details, LAMBDA r : r.answer # "yes")

\* line 166
GapsDetails(gaps) ==
    [i \in 1..Len(gaps) |->
        [id |-> gaps[i].id, pillar |-> gaps[i].pillar, question |-> gaps[i].question]]

\* lines 143-168 over a given question table
ScoreChecklist(table, model_name, d) ==
    LET results_details == ResultsDetails(table, d)
        score == SumPoints(results_details, Len(table))
        max_score == SumWeights(table, Len(table))
        pct == Percentage(score, max_score)
        gaps == Gaps(results_details, d)
    IN  [kind |-> "return",
         model |-> model_name,
         score_percentage |-> pct,
         raw_score |-> score,
         max_possible_score |-> max_score,
         grade |-> Grade(pct),
         gaps_count |-> Len(gaps),
         gaps_details |-> GapsDetails(gaps),
         full_checklist_results |-> results_details]

\* lines 130-168
apply_ethical_checklist(model_name, d) == ScoreChecklist(ETHICAL_CHECKLIST, model_name, d)

TableAfterScoring_InPlace(table, d) == ResultsDetails(table, d)

\* the table after a call.  The loop of lines 147-152 only reads q['id'] and
\* q['weight']; line 152 appends {**q, ...}, a new dict, so no entry of the
\* table is written and the list is neither extended nor reordered
TableAfterScoring(table, d) == table

\* the caller's mapping after a call: line 148 is its only use, a get()
AnswersAfterScoring(d) == d

(***************************************************************************)
(* source.py: get_model_tiers_dataframe                                    *)
(***************************************************************************)
get_model_tiers_dataframe_SkipsInvalid(models_parameters_list) ==
    LET results == [i \in 1..Len(models_parameters_list) |->
                        LET params == models_parameters_list[i]
                        IN  tier_model(params.model_name, params.decision_impact,
                                       params.autonomy_level, params.regulatory_exposure,
                                       params.client_facing, params.financial_impact_usd)]
        valid == SelectSeq(results, LAMBDA r : ~Raised(r))
    IN  [kind |-> "return",
         rows |-> [i \in 1..Len(valid) |->
                      [model |-> valid[i].model, score |-> valid[i].score,
                       tier |-> valid[i].tier,
                       governance_requirements |-> valid[i].governance_requirements]]]

\* lines 203-215: the list comprehension raises at the first profile whose
\* tier_model call raises; otherwise one row per profile, in list order
get_model_tiers_dataframe(models_parameters_list) ==
    LET results == [i \in 1..Len(models_parameters_list) |->
                        LET params == models_parameters_list[i]
                        IN  tier_model(params.model_name, params.decision_impact,
                                       params.autonomy_level, params.regulatory_exposure,
                                       params.client_facing, params.financial_impact_usd)]
        failing == {i \in 1..Len(results) : Raised(results[i])}
    IN  IF failing # {}
        THEN results[CHOOSE i \in failing : \A j \in failing : i <= j]
        ELSE [kind |-> "return",
              rows |-> [i \in 1..Len(results) |->
                           [model |-> results[i].model, score |-> results[i].score,
                            tier |-> results[i].tier,
                            governance_requirements |->
                                results[i].governance_requirements]]]

(***************************************************************************)
(* app.py: the session                                                     *)
(***************************************************************************)
\* lines 27-40
COURSE_MODELS_PARAMS == <<
    [model_name |-> "Credit Default XGBoost", decision_impact |-> "automated_decision",
     autonomy_level |-> "human_approves", regulatory_exposure |-> "high_risk_regulated",
     client_facing |-> TRUE, financial_impact_usd |-> 50000000 * FinScale],
    [model_name |-> "Trading RL Agent", decision_impact |-> "autonomous_action",
     autonomy_level |-> "human_monitors", regulatory_exposure |-> "sector_specific",
     client_facing |-> FALSE, financial_impact_usd |-> 100000000 * FinScale],
    [model_name |-> "News Sentiment (FinBERT)", decision_impact |-> "informational",
     autonomy_level |-> "human_executes", regulatory_exposure |-> "none",
     client_facing |-> FALSE, financial_impact_usd |-> 0],
    [model_name |-> "Research Copilot (RAG)", decision_impact |-> "advisory",
     autonomy_level |-> "human_executes", regulatory_exposure |-> "general",
     client_facing |-> TRUE, financial_impact_usd |-> 0],
    [model_name |-> "Portfolio Rebalancing Agent", decision_impact |-> "recommendation",
     autonomy_level |-> "human_approves", regulatory_exposure |-> "sector_specific",
     client_facing |-> FALSE, financial_impact_usd |-> 50000000 * FinScale],
    [model_name |-> "ESG Research Agent", decision_impact |-> "advisory",
     autonomy_level |-> "human_executes", regulatory_exposure |-> "general",
     client_facing |-> FALSE, financial_impact_usd |-> 0] >>

\* lines 132-141
PAGES == <<"Home", "1. Framework Overview", "2. Model Risk Tiering",
           "3. Ethical Checklist", "4. Human Oversight Policy",
           "5. Regulatory Mapping", "6. Governance Policy Document",
           "7. Final Report">>

\* the pages whose branch neither reads nor writes the results accumulator
StaticPages == {PAGES[i] : i \in 1..Len(PAGES)}
                   \ {"3. Ethical Checklist", "7. Final Report"}

\* line 396
model_names == [i \in 1..Len(COURSE_MODELS_PARAMS) |-> COURSE_MODELS_PARAMS[i].model_name]

TierValue_FirstRow(df, model) == IF Len(df) > 0 THEN df[1].tier ELSE None

\* lines 404-406: the tier of the selected model in tier_df, None without a row
TierValue(df, model) ==
    LET tier_row == SelectSeq(df, LAMBDA row : row.model = model)
    IN  IF Len(tier_row) > 0 THEN tier_row[1].tier ELSE None

\* lines 410-431: the dict built from the ten answer widgets, in table order
AnswersFromWidgets(widget) ==
    [i \in 1..Len(ETHICAL_CHECKLIST) |->
        <<ETHICAL_CHECKLIST[i].id, widget[ETHICAL_CHECKLIST[i].id]>>]

\* lines 439-448
StoredEvaluation(result, tier_value) ==
    [score_pct |-> result.score_percentage,
     raw_score |-> result.raw_score,
     max_score |-> result.max_possible_score,
     grade |-> result.grade,
     gaps |-> result.gaps_count,
     gaps_details |-> result.gaps_details,
     full |-> result.full_checklist_results,
     tier |-> tier_value]

DictSet_KeepFirst(results, key, value) ==
    [m \in DOMAIN results \cup {key} |->
        IF m \in DOMAIN results THEN results[m] ELSE value]

DictSet_FreshDict(results, key, value) == [m \in {key} |-> value]

\* line 439: the subscript assignment results[key] = value of a dict
DictSet(results, key, value) ==
    [m \in DOMAIN results \cup {key} |->
        IF m = key THEN value ELSE results[m]]

ChecklistRecommendation_GradeFirst(tier_value, d, result) ==
    IF tier_value = 1 /\ result.grade \in {"A", "B"}
    THEN "Deployable with controls (committee sign-off + monitoring + evidence pack required)"
    ELSE IF tier_value = 1 /\ DictGet(d, 2, None) # "yes"
    THEN "BLOCKED pending remediation (guardrail triggered)"
    ELSE IF result.grade = "A"
    THEN "Deployable (subject to standard monitoring + documentation)"
    ELSE IF result.grade = "B"
    THEN "Deployable with remediation plan and defined owners"
    ELSE IF result.grade = "C"
    THEN "Not production-ready without remediation"
    ELSE "BLOCKED pending remediation"

\* lines 456-476
ChecklistRecommendation(tier_value, d, result) ==
    IF tier_value = 1 /\ DictGet(d, 2, None) # "yes"
    THEN "BLOCKED pending remediation (guardrail triggered)"
    ELSE IF tier_value = 1 /\ result.grade \in {"A", "B"}
    THEN "Deployable with controls (committee sign-off + monitoring + evidence pack required)"
    ELSE IF result.grade = "A"
    THEN "Deployable (subject to standard monitoring + documentation)"
    ELSE IF result.grade = "B"
    THEN "Deployable with remediation plan and defined owners"
    ELSE IF result.grade = "C"
    THEN "Not production-ready without remediation"
    ELSE "BLOCKED pending remediation"

RECURSIVE PillarFold_LastWins(_, _)
PillarFold_LastWins(full, n) ==
    IF n = 0 THEN <<>>
    ELSE LET pill == PillarFold_LastWins(full, n - 1)
             row == full[n]
             p == row.pillar
             with_p == IF \E i \in 1..Len(pill) : pill[i].pillar = p THEN pill
                       ELSE Append(pill, [pillar |-> p, earned |-> 0, max |-> 0])
         IN  [i \in 1..Len(with_p) |->
                 IF with_p[i].pillar = p
                 THEN [with_p[i] EXCEPT !.earned = row.points_earned,
                                        !.max = 2 * row.weight]
                 ELSE with_p[i]]

RECURSIVE PillarFold_SkipsUnearned(_, _)
PillarFold_SkipsUnearned(full, n) ==
    IF n = 0 THEN <<>>
    ELSE LET pill == PillarFold_SkipsUnearned(full, n - 1)
             row == full[n]
             p == row.pillar
             with_p == IF \E i \in 1..Len(pill) : pill[i].pillar = p THEN pill
                       ELSE Append(pill, [pillar |-> p, earned |-> 0, max |-> 0])
         IN  IF row.points_earned = 0 THEN pill
             ELSE [i \in 1..Len(with_p) |->
                      IF with_p[i].pillar = p
                      THEN [with_p[i] EXCEPT !.earned = @ + row.points_earned,
                                             !.max = @ + 2 * row.weight]
                      ELSE with_p[i]]

RECURSIVE PillarFold(_, _)
\* lines 487-492: pill after the first n rows, as the sequence of its items
\* in insertion order; earned and max in half points
PillarFold(full, n) ==
    IF n = 0 THEN <<>>
    ELSE LET pill == PillarFold(full, n - 1)
             row == full[n]
             p == row.pillar
             \* setdefault(p, {"earned": 0.0, "max": 0.0})
             with_p == IF \E i \in 1..Len(pill) : pill[i].pillar = p THEN pill
                       ELSE Append(pill, [pillar |-> p, earned |-> 0, max |-> 0])
         IN  [i \in 1..Len(with_p) |->
                 IF with_p[i].pillar = p
                 THEN [with_p[i] EXCEPT !.earned = @ + row.points_earned,
                                        !.max = @ + 2 * row.weight]
                 ELSE with_p[i]]

\* lines 495-496: earned / max * 100 as an exact rational, 0.0 when max is 0
PillarValue(item) ==
    IF item.max # 0 THEN [num |-> item.earned * 100, den |-> item.max]
    ELSE [num |-> 0, den |-> 1]

\* lines 487-499: the lists handed to the radar chart
PillarDiagnostic(full) ==
    LET pill == PillarFold(full, Len(full))
        pillars == [i \in 1..Len(pill) |-> pill[i].pillar]
        values == [i \in 1..Len(pill) |-> PillarValue(pill[i])]
    IN  [kind |-> "return",
         pill |-> pill,
         pillars |-> pillars,
         values |-> values,
         pillars_plot |-> IF pillars # <<>> THEN Append(pillars, pillars[1]) ELSE <<>>,
         values_plot |-> IF values # <<>> THEN Append(values, values[1]) ELSE <<>>]

\* lines 693-696: total_models and the three tier counts of the summary
TotalModels(results) == Cardinality(DOMAIN results)

TierCount(results, t) == Cardinality({m \in DOMAIN results : results[m].tier = t})

\* lines 791-812, for one stored evaluation r
ReportRecommendation(r) ==
    LET tier_val == r.tier
        grade == r.grade
    IN  IF tier_val = 1 /\ grade \in {"A", "B"}
        THEN "**Deployable with controls** (committee sign-off + monitoring + evidence pack required)"
        ELSE IF tier_val = 1 /\ r.gaps > 0
        THEN "**BLOCKED** pending remediation (Tier 1 with gaps)"
        ELSE IF grade = "A"
        THEN "**Deployable** (subject to standard monitoring + documentation)"
        ELSE IF grade = "B"
        THEN "**Deployable with remediation plan** and defined owners"
        ELSE IF grade = "C"
        THEN "**Not production-ready** without remediation"
        ELSE "**BLOCKED** pending remediation"

(***************************************************************************)
(* Inputs                                                                  *)
(***************************************************************************)
\* a value that is a member of none of the three enumerations
Unlisted == "unlisted"

ModelNameInputs == {"Credit Default XGBoost", "ESG Research Agent"}

\* amounts at, just below and just above each threshold, zero, and the two
\* amounts of the configured models; in units of 1/FinScale dollar
FinancialInputs ==
    {0, 50000000 * FinScale, 100000000 * FinScale}
    \cup {t * FinScale + delta : t \in {100000, 1000000, 10000000},
                                 delta \in (0 - MaxDelta)..MaxDelta}

ProfileInputs ==
    [model_name : ModelNameInputs,
     decision_impact : DOMAIN DecisionImpactScore \cup {Unlisted},
     autonomy_level : DOMAIN AutonomyScore \cup {Unlisted},
     regulatory_exposure : DOMAIN RegulatoryScore \cup {Unlisted},
     client_facing : BOOLEAN,
     financial_impact_usd : FinancialInputs]

QuestionIds == {ETHICAL_CHECKLIST[i].id : i \in 1..Len(ETHICAL_CHECKLIST)}

\* the options of the answer selectbox (line 423)
AnswerOptions == {"yes", "partial", "no"}

\* what a caller of apply_ethical_checklist may put in the dict: the three
\* documented answers and one value outside them
AnswerInputs == AnswerOptions \cup {"maybe"}

\* every complete mapping over the documented answers, keys in table order
CompleteMappings == {AnswersFromWidgets(w) : w \in [QuestionIds -> AnswerOptions]}

\* the same mappings with the keys inserted in descending order
ReversedMappings == {Reverse(d) : d \in CompleteMappings}

\* every mapping of at most MaxEntries entries, in every insertion order
ShortMappings ==
    UNION {{d \in [1..n -> QuestionIds \X AnswerInputs] :
                \A i, j \in 1..n : i # j => d[i][1] # d[j][1]} : n \in 0..MaxEntries}

\* session: the states of the ten answer widgets the user leaves the page in.
\* Either 'yes' down to question n and the default 'no' (index=2) below it
\* (n = 0: all defaults, grade F; 2: F; 7: C; 8: B; 10: A), or 'yes'
\* everywhere but any of the three options on the bias question (A, A, B).
AnsweredUpTo == {0, 2, 7, 8, 10}

WidgetInputs ==
    {[q \in QuestionIds |-> IF q <= n THEN "yes" ELSE "no"] : n \in AnsweredUpTo}
    \cup {[q \in QuestionIds |-> IF q = 2 THEN q2 ELSE "yes"] : q2 \in AnswerOptions}

(***************************************************************************)
(* The session after the first script run (app.py lines 110-123, Home)     *)
(***************************************************************************)
NoEvaluations == [m \in {} |-> m]

SessionInit ==
    /\ current_page = "Home"
    /\ tier_df = get_model_tiers_dataframe(COURSE_MODELS_PARAMS).rows
    /\ tier_breakdown_df = [i \in 1..Len(COURSE_MODELS_PARAMS) |->
                                compute_tier_breakdown(COURSE_MODELS_PARAMS[i])]
    /\ ethical_evaluation_results = NoEvaluations
    /\ selected_model = None
    /\ recommendation = None
    /\ pillar_diagnostic = NotCalled
    /\ report_recs = NoEvaluations

(***************************************************************************)
(* Specification SpecTier: tier_model and compute_tier_breakdown called on *)
(* one profile                                                             *)
(***************************************************************************)
InitTier ==
    /\ profile \in ProfileInputs
    /\ tier_out = NotCalled
    /\ breakdown_out = NotCalled
    /\ tier_again = NotCalled
    /\ batch = <<>>
    /\ batch_out = NotCalled
    /\ checklist = ETHICAL_CHECKLIST
    /\ answers = <<>>
    /\ checklist_out = NotCalled
    /\ answers_up = <<>>
    /\ checklist_up = NotCalled
    /\ SessionInit

CallTierModel ==
    /\ tier_out = NotCalled
    /\ tier_out' = tier_model(profile.model_name, profile.decision_impact,
                              profile.autonomy_level, profile.regulatory_exposure,
                              profile.client_facing, profile.financial_impact_usd)
    /\ UNCHANGED <<profile, breakdown_out, tier_again, batchVars, checklistVars, sessionVars>>

CallComputeTierBreakdown ==
    /\ breakdown_out = NotCalled
    /\ breakdown_out' = compute_tier_breakdown(profile)
    /\ UNCHANGED <<profile, tier_out, tier_again, batchVars, checklistVars, sessionVars>>

\* a further call of tier_model, before or after the others, with the same
\* five risk attributes and any model_name
CallTierModelAgain(model_name) ==
    /\ tier_again = NotCalled
    /\ tier_again' = tier_model(model_name, profile.decision_impact,
                                profile.autonomy_level, profile.regulatory_exposure,
                                profile.client_facing, profile.financial_impact_usd)
    /\ UNCHANGED <<profile, tier_out, breakdown_out, batchVars, checklistVars, sessionVars>>

NextTier ==
    \/ CallTierModel
    \/ CallComputeTierBreakdown
    \/ \E model_name \in ModelNameInputs : CallTierModelAgain(model_name)

SpecTier == InitTier /\ [][NextTier]_vars

(***************************************************************************)
(* Specification SpecBatch: get_model_tiers_dataframe called on one list   *)
(* of profiles, some of them holding a value outside the enumerations.     *)
(***************************************************************************)
\* another value that is a member of none of the three enumerations
Misspelt == "high_risk"

\* three profiles of the course (tiers 1, 3, 3) and two invalid ones
BatchProfiles ==
    {COURSE_MODELS_PARAMS[1], COURSE_MODELS_PARAMS[3], COURSE_MODELS_PARAMS[6],
     [COURSE_MODELS_PARAMS[2] EXCEPT !.autonomy_level = Unlisted],
     [COURSE_MODELS_PARAMS[4] EXCEPT !.regulatory_exposure = Misspelt]}

BatchInputs == UNION {[1..n -> BatchProfiles] : n \in 0..MaxBatch}

InitBatch ==
    /\ batch \in BatchInputs
    /\ batch_out = NotCalled
    /\ profile = COURSE_MODELS_PARAMS[1]
    /\ tier_out = NotCalled
    /\ breakdown_out = NotCalled
    /\ tier_again = NotCalled
    /\ checklist = ETHICAL_CHECKLIST
    /\ answers = <<>>
    /\ checklist_out = NotCalled
    /\ answers_up = <<>>
    /\ checklist_up = NotCalled
    /\ SessionInit

CallGetModelTiersDataframe ==
    /\ batch_out = NotCalled
    /\ batch_out' = get_model_tiers_dataframe(batch)
    /\ UNCHANGED <<batch, profile, tier_out, breakdown_out, tier_again,
                   checklistVars, sessionVars>>

NextBatch == CallGetModelTiersDataframe

SpecBatch == InitBatch /\ [][NextBatch]_vars

(***************************************************************************)
(* Specification SpecChecklist: apply_ethical_checklist called on one      *)
(* answer mapping                                                          *)
(***************************************************************************)
InitChecklist ==
    /\ checklist = ETHICAL_CHECKLIST
    /\ answers \in CompleteMappings \cup ReversedMappings \cup ShortMappings
    /\ checklist_out = NotCalled
    /\ answers_up = <<>>
    /\ checklist_up = NotCalled
    /\ profile = COURSE_MODELS_PARAMS[1]
    /\ tier_out = NotCalled
    /\ breakdown_out = NotCalled
    /\ tier_again = NotCalled
    /\ batch = <<>>
    /\ batch_out = NotCalled
    /\ SessionInit

CallApplyEthicalChecklist ==
    /\ checklist_out = NotCalled
    /\ checklist_out' = ScoreChecklist(checklist, profile.model_name, answers)
    /\ checklist' = TableAfterScoring(checklist, answers)
    /\ answers' = AnswersAfterScoring(answers)
    /\ UNCHANGED <<upgradeVars, tierVars, sessionVars>>

NextChecklist == CallApplyEthicalChecklist

SpecChecklist == InitChecklist /\ [][NextChecklist]_vars

(***************************************************************************)
(* Specification SpecRepeated: apply_ethical_checklist called repeatedly,  *)
(* by a caller that builds a new mapping before each call, in a module     *)
(* whose ETHICAL_CHECKLIST list may have been edited before the first call.*)
(***************************************************************************)
\* the list as it is in source.py, cut down to its first question, emptied,
\* or with the weight of the only Privacy question set to 0
ChecklistInputs ==
    {SubSeq(ETHICAL_CHECKLIST, 1, n) : n \in {0, 1, Len(ETHICAL_CHECKLIST)}}
    \cup {[ETHICAL_CHECKLIST EXCEPT ![7].weight = 0]}

\* the mappings of the repeated calls
RepeatedMappings ==
    {d \in ShortMappings : Len(d) <= 1} \cup {AnswersFromWidgets(w) : w \in WidgetInputs}

InitRepeated ==
    /\ checklist \in ChecklistInputs
    /\ answers \in RepeatedMappings
    /\ checklist_out = NotCalled
    /\ answers_up = <<>>
    /\ checklist_up = NotCalled
    /\ profile = COURSE_MODELS_PARAMS[1]
    /\ tier_out = NotCalled
    /\ breakdown_out = NotCalled
    /\ tier_again = NotCalled
    /\ batch = <<>>
    /\ batch_out = NotCalled
    /\ SessionInit

\* the caller discards the last result and builds the mapping of the next call
BuildAnswers(d) ==
    /\ checklist_out # NotCalled
    /\ answers' = d
    /\ checklist_out' = NotCalled
    /\ pillar_diagnostic' = NotCalled
    /\ UNCHANGED <<checklist, upgradeVars, tierVars, current_page, tier_df, tier_breakdown_df,
                   ethical_evaluation_results, selected_model, recommendation,
                   report_recs>>

\* app.py lines 487-499 applied to the result of the call
BuildPillarDiagnostic ==
    /\ checklist_out.kind = "return"
    /\ pillar_diagnostic = NotCalled
    /\ pillar_diagnostic' = PillarDiagnostic(checklist_out.full_checklist_results)
    /\ UNCHANGED <<checklistVars, tierVars, current_page, tier_df, tier_breakdown_df,
                   ethical_evaluation_results, selected_model, recommendation,
                   report_recs>>

NextRepeated ==
    \/ CallApplyEthicalChecklist
    \/ BuildPillarDiagnostic
    \/ \E d \in RepeatedMappings : BuildAnswers(d)

SpecRepeated == InitRepeated /\ [][NextRepeated]_vars

(***************************************************************************)
(* Specification SpecUpgrade: apply_ethical_checklist called on a complete *)
(* mapping and then on the mapping the caller gets by raising one answer   *)
(* by one level (no to partial, partial to yes).                           *)
(***************************************************************************)
\* the next level of an answer
RaisedAnswer(ans) == IF ans = "no" THEN "partial" ELSE "yes"

\* the mapping d with the answer of question id raised by one level
Upgrade(d, id) ==
    [i \in 1..Len(d) |-> IF d[i][1] = id THEN <<id, RaisedAnswer(d[i][2])>> ELSE d[i]]

InitUpgrade ==
    /\ checklist = ETHICAL_CHECKLIST
    /\ answers \in CompleteMappings
    /\ checklist_out = NotCalled
    /\ answers_up = <<>>
    /\ checklist_up = NotCalled
    /\ profile = COURSE_MODELS_PARAMS[1]
    /\ tier_out = NotCalled
    /\ breakdown_out = NotCalled
    /\ tier_again = NotCalled
    /\ batch = <<>>
    /\ batch_out = NotCalled
    /\ SessionInit

\* the caller raises the answer of question id and calls again
CallOnUpgradedAnswers(id) ==
    /\ checklist_out # NotCalled
    /\ checklist_up = NotCalled
    /\ DictGet(answers, id, "no") \in {"no", "partial"}
    /\ LET d == Upgrade(answers, id)
       IN  /\ checklist_up' = ScoreChecklist(checklist, profile.model_name, d)
           /\ checklist' = TableAfterScoring(checklist, d)
           /\ answers_up' = AnswersAfterScoring(d)
    /\ UNCHANGED <<answers, checklist_out, tierVars, sessionVars>>

NextUpgrade ==
    \/ CallApplyEthicalChecklist
    \/ \E id \in QuestionIds : CallOnUpgradedAnswers(id)

SpecUpgrade == InitUpgrade /\ [][NextUpgrade]_vars

(***************************************************************************)
(* Specification Spec: the Streamlit session.  Every step is one run of    *)
(* the script of app.py with the sidebar on one page.                      *)
(***************************************************************************)
Init ==
    /\ profile = COURSE_MODELS_PARAMS[1]
    /\ tier_out = NotCalled
    /\ breakdown_out = NotCalled
    /\ tier_again = NotCalled
    /\ batch = <<>>
    /\ batch_out = NotCalled
    /\ checklist = ETHICAL_CHECKLIST
    /\ answers = <<>>
    /\ checklist_out = NotCalled
    /\ answers_up = <<>>
    /\ checklist_up = NotCalled
    /\ SessionInit

\* lines 149, 165-339, 539-679: a page that shows static content and tables
RenderStaticPage(page) ==
    /\ page \in StaticPages
    /\ current_page' = page
    /\ selected_model' = None
    /\ recommendation' = None
    /\ pillar_diagnostic' = NotCalled
    /\ report_recs' = NoEvaluations
    /\ answers' = <<>>
    /\ checklist_out' = NotCalled
    /\ UNCHANGED <<tierVars, checklist, upgradeVars, tier_df, tier_breakdown_df,
                   ethical_evaluation_results>>

\* line 437 for every model and widget state of the session, computed once
EvaluationMemo ==
    [m \in {model_names[i] : i \in 1..Len(model_names)}, w \in WidgetInputs |->
        apply_ethical_checklist(m, AnswersFromWidgets(w))]

\* lines 487-499 for every model and widget state of the session, computed once
PillarMemo ==
    [m \in {model_names[i] : i \in 1..Len(model_names)}, w \in WidgetInputs |->
        PillarDiagnostic(EvaluationMemo[m, w].full_checklist_results)]

\* lines 340-537: the Ethical Checklist page with the model selectbox on
\* model and the ten answer widgets on widget
RenderEthicalChecklist(model, widget) ==
    /\ Cardinality(DOMAIN ethical_evaluation_results \cup {model}) <= MaxEvaluated
    /\ LET tier_value == TierValue(tier_df, model)
           d == AnswersFromWidgets(widget)
           result == IF checklist = ETHICAL_CHECKLIST THEN EvaluationMemo[model, widget]
                     ELSE ScoreChecklist(checklist, model, d)
       IN  /\ current_page' = "3. Ethical Checklist"
           /\ selected_model' = model
           /\ answers' = AnswersAfterScoring(d)
           /\ checklist' = TableAfterScoring(checklist, d)
           /\ checklist_out' = result
           /\ ethical_evaluation_results' =
                  DictSet(ethical_evaluation_results, model,
                          StoredEvaluation(result, tier_value))
           /\ recommendation' = ChecklistRecommendation(tier_value, d, result)
           /\ pillar_diagnostic' =
                  IF checklist = ETHICAL_CHECKLIST THEN PillarMemo[model, widget]
                  ELSE PillarDiagnostic(result.full_checklist_results)
    /\ report_recs' = NoEvaluations
    /\ UNCHANGED <<tierVars, upgradeVars, tier_df, tier_breakdown_df>>

\* lines 683-897: the Final Report page
RenderFinalReport ==
    /\ current_page' = "7. Final Report"
    /\ selected_model' = None
    /\ recommendation' = None
    /\ pillar_diagnostic' = NotCalled
    /\ answers' = <<>>
    /\ checklist_out' = NotCalled
    /\ report_recs' = [m \in DOMAIN ethical_evaluation_results |->
                          ReportRecommendation(ethical_evaluation_results[m])]
    /\ UNCHANGED <<tierVars, checklist, upgradeVars, tier_df, tier_breakdown_df,
                   ethical_evaluation_results>>

Next ==
    \/ \E page \in StaticPages : RenderStaticPage(page)
    \/ \E i \in 1..Len(model_names), widget \in WidgetInputs :
           RenderEthicalChecklist(model_names[i], widget)
    \/ RenderFinalReport

Spec == Init /\ [][Next]_vars

(***************************************************************************)
(* Properties                                                              *)
(***************************************************************************)
\* the point tables as the specification states them
SpecImpactPoints(v) ==
    CASE v = "informational" -> 1 [] v = "advisory" -> 2 [] v = "recommendation" -> 3
      [] v = "automated_decision" -> 4 [] v = "autonomous_action" -> 5

SpecAutonomyPoints(v) ==
    CASE v = "human_executes" -> 1 [] v = "human_approves" -> 2 [] v = "human_monitors" -> 3
      [] v = "human_reviews_after" -> 4 [] v = "fully_autonomous" -> 5

SpecRegulatoryPoints(v) ==
    CASE v = "none" -> 0 [] v = "general" -> 1 [] v = "sector_specific" -> 2
      [] v = "high_risk_regulated" -> 3

\* S_financial as the specification states it, by the band the amount lies in
SpecFinancialPoints(amount) ==
    CASE amount <= 100000 * FinScale -> 0
      [] amount > 100000 * FinScale /\ amount <= 1000000 * FinScale -> 1
      [] amount > 1000000 * FinScale /\ amount <= 10000000 * FinScale -> 2
      [] amount > 10000000 * FinScale -> 3

ValidProfile(p) ==
    /\ p.decision_impact \in {"informational", "advisory", "recommendation",
                              "automated_decision", "autonomous_action"}
    /\ p.autonomy_level \in {"human_executes", "human_approves", "human_monitors",
                             "human_reviews_after", "fully_autonomous"}
    /\ p.regulatory_exposure \in {"none", "general", "sector_specific",
                                  "high_risk_regulated"}
    /\ p.financial_impact_usd >= 0

\* the four non-financial components of a valid profile
SpecNonFinancialPoints(p) ==
    SpecImpactPoints(p.decision_impact) + SpecAutonomyPoints(p.autonomy_level)
    + SpecRegulatoryPoints(p.regulatory_exposure)
    + (IF p.client_facing THEN 2 ELSE 0)

\* C1: for every valid profile tier_model returns, and the score it returns is
\* S_impact + S_autonomy + S_regulatory + S_client + S_financial, the components
\* being the fixed table values, 2 or 0 for client-facing, and the 0..3
\* financial threshold point.
C1_ScoreIsSumOfComponents ==
    (tier_out # NotCalled /\ ValidProfile(profile)) =>
        /\ tier_out.kind = "return"
        /\ tier_out.score = SpecNonFinancialPoints(profile)
                            + SpecFinancialPoints(profile.financial_impact_usd)

\* a client-facing profile with every component at its maximum has been scored
C1_Witness ==
    /\ tier_out.kind = "return"
    /\ profile.client_facing
    /\ profile.decision_impact = "autonomous_action"
    /\ profile.autonomy_level = "fully_autonomous"
    /\ profile.regulatory_exposure = "high_risk_regulated"
    /\ profile.financial_impact_usd > 10000000 * FinScale
    /\ tier_out.score = 18

\* C2: the tier returned by tier_model is determined by the score alone:
\* tier 1 exactly when score >= 10, tier 2 exactly when 6 <= score < 10,
\* tier 3 exactly when score < 6 (so 10 -> 1, 9 -> 2, 6 -> 2, 5 -> 3).
C2_TierIsFunctionOfScore ==
    tier_out.kind = "return" =>
        /\ tier_out.tier \in {1, 2, 3}
        /\ (tier_out.tier = 1) <=> (tier_out.score >= 10)
        /\ (tier_out.tier = 2) <=> (tier_out.score >= 6 /\ tier_out.score < 10)
        /\ (tier_out.tier = 3) <=> (tier_out.score < 6)
        /\ (tier_out.score = 10 => tier_out.tier = 1)
        /\ (tier_out.score = 9 => tier_out.tier = 2)
        /\ (tier_out.score = 6 => tier_out.tier = 2)
        /\ (tier_out.score = 5 => tier_out.tier = 3)

\* a profile scoring exactly 10 has been assigned tier 1
C2_Witness == tier_out.kind = "return" /\ tier_out.score = 10 /\ tier_out.tier = 1

\* C3: the financial component uses strict thresholds in tier_model and in
\* compute_tier_breakdown alike: exactly 10,000,000 gives 2, exactly 1,000,000
\* gives 1, exactly 100,000 and anything below give 0.
C3_StrictFinancialThresholds ==
    LET amount == profile.financial_impact_usd
        AtThreshold(points) ==
            /\ (amount = 10000000 * FinScale => points = 2)
            /\ (amount = 1000000 * FinScale => points = 1)
            /\ (amount <= 100000 * FinScale => points = 0)
            /\ points = SpecFinancialPoints(amount)
    IN  /\ tier_out.kind = "return" =>
               AtThreshold(tier_out.score - SpecNonFinancialPoints(profile))
        /\ breakdown_out.kind = "return" =>
               AtThreshold(breakdown_out.S_financial_impact)

\* both functions have scored an impact of exactly 10,000,000 as 2
C3_Witness ==
    /\ profile.financial_impact_usd = 10000000 * FinScale
    /\ tier_out.kind = "return"
    /\ tier_out.score - SpecNonFinancialPoints(profile) = 2
    /\ breakdown_out.kind = "return"
    /\ breakdown_out.S_financial_impact = 2

\* the first field, in the order the code reads them, whose value is unlisted
OffendingField(p) ==
    IF p.decision_impact \notin DOMAIN DecisionImpactScore THEN "decision_impact"
    ELSE IF p.autonomy_level \notin DOMAIN AutonomyScore THEN "autonomy_level"
    ELSE "regulatory_exposure"

\* C4: called with an enum value outside its set, tier_model fails with an
\* InvalidProfile error naming the offending field and the offending value,
\* and returns no result.
C4_InvalidProfileReported ==
    (tier_out # NotCalled /\ ~ValidProfile(profile)) =>
        /\ tier_out.kind = "InvalidProfile"
        /\ "field" \in DOMAIN tier_out
        /\ tier_out.field = OffendingField(profile)
        /\ tier_out.value = profile[OffendingField(profile)]

\* the answer the mapping resolves a question id to
Resolved(d, id) ==
    IF \E i \in 1..Len(d) : d[i][1] = id
    THEN LET i == CHOOSE i \in 1..Len(d) : d[i][1] = id IN d[i][2]
    ELSE "no"

WeightOf(id) ==
    LET i == CHOOSE i \in 1..Len(ETHICAL_CHECKLIST) : ETHICAL_CHECKLIST[i].id = id
    IN  ETHICAL_CHECKLIST[i].weight

\* points, in half points, the specification gives a question for an answer
SpecPoints(id, ans) ==
    CASE ans = "yes" -> 2 * WeightOf(id)
      [] ans = "partial" -> WeightOf(id)
      [] ans = "no" -> 0

RECURSIVE SumOverIds(_, _)
SumOverIds(ids, d) ==
    IF ids = {} THEN 0
    ELSE LET id == CHOOSE id \in ids : TRUE
         IN  SpecPoints(id, Resolved(d, id)) + SumOverIds(ids \ {id}, d)

OverDocumentedAnswers(d) == \A i \in 1..Len(d) : d[i][2] \in {"yes", "partial", "no"}

\* C5: for every mapping over {yes, partial, no}, each of the 10 questions
\* earns its weight for yes, half its weight for partial and 0 for no, an id
\* absent from the mapping counting as no; raw_score is the sum of these.
C5_PointsPerAnswer ==
    (checklist_out.kind = "return" /\ OverDocumentedAnswers(answers)) =>
        /\ Len(checklist_out.full_checklist_results) = 10
        /\ \A i \in 1..10 :
               LET r == checklist_out.full_checklist_results[i]
               IN  /\ r.id = i
                   /\ r.answer = Resolved(answers, i)
                   /\ r.points_earned = SpecPoints(i, Resolved(answers, i))
        /\ checklist_out.raw_score = SumOverIds(1..10, answers)

\* a mapping with a partial answer and missing ids has been scored
C5_Witness ==
    /\ checklist_out.kind = "return"
    /\ answers = <<<<8, "partial">>, <<1, "yes">>>>
    /\ checklist_out.full_checklist_results[8].points_earned = 2
    /\ checklist_out.full_checklist_results[2].answer = "no"
    /\ checklist_out.raw_score = 8

\* C6: when the mapping holds, for one of the 10 ids, a value outside
\* {yes, partial, no}, the call fails with InvalidAnswer and produces no result.
C6_InvalidAnswerRejected ==
    (checklist_out # NotCalled /\ ~OverDocumentedAnswers(answers)) =>
        checklist_out.kind = "InvalidAnswer"

IsBlocked(rec) ==
    rec \in {"BLOCKED pending remediation (guardrail triggered)",
             "BLOCKED pending remediation",
             "**BLOCKED** pending remediation (Tier 1 with gaps)",
             "**BLOCKED** pending remediation"}

\* the answer to the bias-testing question kept in a stored evaluation
StoredQ2(r) ==
    LET i == CHOOSE i \in 1..Len(r.full) : r.full[i].id = 2 IN r.full[i].answer

\* C7: a Tier-1 model whose answer to question 2 is not yes is shown BLOCKED,
\* whatever its grade, on the Ethical Checklist page and, for every evaluated
\* model, on the Final Report page.
C7_GuardrailOnBothPages ==
    /\ (current_page = "3. Ethical Checklist"
            /\ TierValue(tier_df, selected_model) = 1
            /\ Resolved(answers, 2) # "yes")
         => IsBlocked(recommendation)
    /\ current_page = "7. Final Report" =>
         \A m \in DOMAIN report_recs :
             (ethical_evaluation_results[m].tier = 1
                  /\ StoredQ2(ethical_evaluation_results[m]) # "yes")
               => IsBlocked(report_recs[m])

\* C8: the recommendation of the Ethical Checklist page is the first matching
\* rule of (1) tier 1 and Q2 not yes: BLOCKED (guardrail triggered); (2) tier 1
\* and grade A or B: Deployable with controls; (3) grade A: Deployable;
\* (4) grade B: Deployable with remediation plan; (5) grade C: Not
\* production-ready; (6) otherwise BLOCKED pending remediation.
C8_RecommendationPrecedence ==
    current_page = "3. Ethical Checklist" =>
        LET tier == TierValue(tier_df, selected_model)
            grade == checklist_out.grade
            q2 == Resolved(answers, 2)
            rule1 == tier = 1 /\ q2 # "yes"
            rule2 == tier = 1 /\ grade \in {"A", "B"}
        IN  /\ tier \in {1, 2, 3}
            /\ grade \in {"A", "B", "C", "F"}
            /\ recommendation =
                 CASE rule1 -> "BLOCKED pending remediation (guardrail triggered)"
                   [] ~rule1 /\ rule2 ->
                        "Deployable with controls (committee sign-off + monitoring + evidence pack required)"
                   [] ~rule1 /\ ~rule2 /\ grade = "A" ->
                        "Deployable (subject to standard monitoring + documentation)"
                   [] ~rule1 /\ ~rule2 /\ grade = "B" ->
                        "Deployable with remediation plan and defined owners"
                   [] ~rule1 /\ ~rule2 /\ grade = "C" ->
                        "Not production-ready without remediation"
                   [] ~rule1 /\ ~rule2 /\ grade = "F" ->
                        "BLOCKED pending remediation"

\* a Tier-1 model graded A with the bias question answered partial is blocked
C8_Witness ==
    /\ current_page = "3. Ethical Checklist"
    /\ TierValue(tier_df, selected_model) = 1
    /\ checklist_out.grade = "A"
    /\ Resolved(answers, 2) = "partial"
    /\ recommendation = "BLOCKED pending remediation (guardrail triggered)"

\* C9: the grade is A iff percentage >= 90, B iff 75 <= percentage < 90,
\* C iff 60 <= percentage < 75, F iff percentage < 60, the percentage
\* raw_score / max_score * 100 being compared exactly.
C9_GradeThresholds ==
    checklist_out.kind = "return" =>
        LET raw == checklist_out.raw_score
            max == checklist_out.max_possible_score
            grade == checklist_out.grade
        IN  /\ max > 0
            /\ checklist_out.score_percentage = [num |-> raw * 100, den |-> max]
            /\ (grade = "A") <=> (raw * 100 >= 90 * max)
            /\ (grade = "B") <=> (raw * 100 >= 75 * max /\ raw * 100 < 90 * max)
            /\ (grade = "C") <=> (raw * 100 >= 60 * max /\ raw * 100 < 75 * max)
            /\ (grade = "F") <=> (raw * 100 < 60 * max)

\* a raw score of exactly 75% of the maximum has been graded B
C9_Witness ==
    /\ checklist_out.kind = "return"
    /\ checklist_out.raw_score * 100 = 75 * checklist_out.max_possible_score
    /\ checklist_out.grade = "B"

\* C10: gaps_details holds exactly the questions whose resolved answer is not
\* yes, each once, in ascending id order whatever the insertion order of the
\* mapping, and gaps_count is its length.
C10_GapsAscending ==
    checklist_out.kind = "return" =>
        LET g == checklist_out.gaps_details
        IN  /\ {g[i].id : i \in 1..Len(g)} = {id \in 1..10 : Resolved(answers, id) # "yes"}
            /\ \A i, j \in 1..Len(g) : i < j => g[i].id < g[j].id
            /\ \A i \in 1..Len(g) :
                   /\ g[i].pillar = ETHICAL_CHECKLIST[g[i].id].pillar
                   /\ g[i].question = ETHICAL_CHECKLIST[g[i].id].question
            /\ checklist_out.gaps_count = Len(g)

\* a complete mapping inserted in descending id order, with questions 8 and 6
\* answered partial and no, has been scored: the gaps are 6, then 8
C10_Witness ==
    /\ checklist_out.kind = "return"
    /\ Len(answers) = 10
    /\ answers[1][1] = 10
    /\ answers[3] = <<8, "partial">>
    /\ answers[5] = <<6, "no">>
    /\ checklist_out.gaps_count = 2
    /\ checklist_out.gaps_details[1].id = 6
    /\ checklist_out.gaps_details[2].id = 8

\* C11: for every answer mapping, complete or partial, gaps_count plus the
\* number of the 10 questions whose resolved answer is yes equals 10.
C11_GapsPlusYesIsTen ==
    checklist_out.kind = "return" =>
        checklist_out.gaps_count
            + Cardinality({id \in 1..10 : Resolved(answers, id) = "yes"}) = 10

\* a partial mapping with one yes, one partial and eight missing ids has been
\* scored: nine gaps
C11_Witness ==
    /\ checklist_out.kind = "return"
    /\ answers = <<<<3, "yes">>, <<5, "partial">>>>
    /\ checklist_out.gaps_count = 9

\* C12: 0 <= raw_score <= max_possible_score and 0 <= score_percentage <= 100;
\* the percentage is 100 exactly when all 10 answers are yes and 0 exactly
\* when no answer is yes or partial.
C12_ScoreBounds ==
    checklist_out.kind = "return" =>
        LET pct == checklist_out.score_percentage
        IN  /\ 0 <= checklist_out.raw_score
            /\ checklist_out.raw_score <= checklist_out.max_possible_score
            /\ pct.den > 0
            /\ 0 <= pct.num
            /\ pct.num <= 100 * pct.den
            /\ (pct.num = 100 * pct.den)
                 <=> (\A id \in 1..10 : Resolved(answers, id) = "yes")
            /\ (pct.num = 0)
                 <=> (\A id \in 1..10 : Resolved(answers, id) \notin {"yes", "partial"})

\* the all-yes mapping has been scored 100%
C12_Witness ==
    /\ checklist_out.kind = "return"
    /\ \A id \in 1..10 : Resolved(answers, id) = "yes"
    /\ checklist_out.raw_score = checklist_out.max_possible_score
    /\ checklist_out.score_percentage.num = 100 * checklist_out.score_percentage.den

RECURSIVE SumOfWeights(_)
\* the sum of the weights of the questions with the given ids, in points
SumOfWeights(ids) ==
    IF ids = {} THEN 0
    ELSE LET id == CHOOSE id \in ids : TRUE
         IN  WeightOf(id) + SumOfWeights(ids \ {id})

\* C13 as stated: max_possible_score is the sum of the weights of the 10
\* questions, whatever the answers, and that sum is 21 (42 half points).
C13_MaxScoreIs21 ==
    checklist_out.kind = "return" =>
        /\ checklist_out.max_possible_score = 2 * SumOfWeights(1..10)
        /\ checklist_out.max_possible_score = 2 * 21

\* C13 amended: max_possible_score is the sum of the weights of the 10
\* questions, whatever the answers, and that sum is 22 (44 half points).
C13_MaxScoreIs22 ==
    checklist_out.kind = "return" =>
        /\ checklist_out.max_possible_score = 2 * SumOfWeights(1..10)
        /\ checklist_out.max_possible_score = 2 * 22

\* the maximum has been computed for a mapping that earns nothing
C13_Witness ==
    /\ checklist_out.kind = "return"
    /\ answers = <<>>
    /\ checklist_out.raw_score = 0
    /\ checklist_out.max_possible_score = 44

\* the answers of the worked example: yes everywhere, partial on 6 and 8
IsWorkedExample(d) ==
    /\ DictKeys(d) = 1..10
    /\ \A id \in 1..10 :
           Resolved(d, id) = (IF id \in {6, 8} THEN "partial" ELSE "yes")

\* C20: the answers {1..5: yes, 6: partial, 7: yes, 8: partial, 9, 10: yes}
\* give raw_score 20.5 of a maximum of 22, a percentage of about 93.18,
\* grade A and gaps_count 2, gaps_details listing ids 6 and 8 in that order.
C20_WorkedChecklistExample ==
    (checklist_out.kind = "return" /\ IsWorkedExample(answers)) =>
        LET pct == checklist_out.score_percentage
        IN  /\ checklist_out.raw_score = 41
            /\ checklist_out.max_possible_score = 44
            /\ 9318 * pct.den <= 100 * pct.num
            /\ 100 * pct.num < 9319 * pct.den
            /\ checklist_out.grade = "A"
            /\ checklist_out.gaps_count = 2
            /\ [i \in 1..Len(checklist_out.gaps_details) |->
                    checklist_out.gaps_details[i].id] = <<6, 8>>

\* the worked example has been scored
C20_Witness ==
    /\ checklist_out.kind = "return"
    /\ IsWorkedExample(answers)
    /\ checklist_out.raw_score = 41
    /\ checklist_out.grade = "A"

\* the five risk attributes of the Credit Default XGBoost example
IsCreditDefaultProfile(p) ==
    /\ p.decision_impact = "automated_decision"
    /\ p.autonomy_level = "human_approves"
    /\ p.regulatory_exposure = "high_risk_regulated"
    /\ p.client_facing = TRUE
    /\ p.financial_impact_usd = 50000000 * FinScale

\* C19: the profile automated_decision, human_approves, high_risk_regulated,
\* client facing, 50,000,000 USD (Credit Default XGBoost) scores
\* 4 + 2 + 3 + 2 + 3 = 14 and is assigned Tier 1.
C19_CreditDefaultExample ==
    (tier_out # NotCalled /\ IsCreditDefaultProfile(profile)) =>
        /\ tier_out.kind = "return"
        /\ DecisionImpactScore[profile.decision_impact] = 4
        /\ AutonomyScore[profile.autonomy_level] = 2
        /\ RegulatoryScore[profile.regulatory_exposure] = 3
        /\ ClientFacingScore(profile.client_facing) = 2
        /\ FinancialScore(profile.financial_impact_usd) = 3
        /\ tier_out.score = 14
        /\ tier_out.tier = 1

\* tier_model has returned for the Credit Default XGBoost profile
C19_Witness ==
    /\ IsCreditDefaultProfile(profile)
    /\ profile.model_name = "Credit Default XGBoost"
    /\ tier_out.kind = "return"
    /\ tier_out.score = 14

\* C14: when the checklist table has been reconfigured to hold no question
\* (max_score = 0), apply_ethical_checklist reports an EmptyChecklist error
\* and returns no result with percentage 0.
C14_EmptyChecklistReported ==
    (checklist = <<>> /\ checklist_out # NotCalled) =>
        checklist_out.kind = "EmptyChecklist"

\* a step in which apply_ethical_checklist is called and comes back
CallStep == checklist_out = NotCalled /\ checklist_out' # NotCalled

\* C18: apply_ethical_checklist has no side effects.  Over a call the table
\* and the caller's mapping are unchanged, the entries of the table gain no
\* 'answer' or 'points_earned' field while those of full_checklist_results
\* carry them, and the result is the one the table and the mapping of this
\* call determine, whatever calls were made before.
C18_NoSideEffects ==
    [][CallStep =>
          /\ checklist' = checklist
          /\ answers' = answers
          /\ checklist' \in ChecklistInputs
          /\ \A i \in 1..Len(checklist') :
                 DOMAIN checklist'[i] = {"id", "question", "pillar", "weight"}
          /\ LET full == checklist_out'.full_checklist_results
             IN  /\ Len(full) = Len(checklist')
                 /\ \A i \in 1..Len(full) :
                        /\ DOMAIN full[i] = DOMAIN checklist'[i] \cup {"answer", "points_earned"}
                        /\ full[i].answer = Resolved(answers', full[i].id)
                        /\ full[i].points_earned = PointsEarned(full[i].weight, full[i].answer)
    ]_vars

\* a call on the table of source.py has returned: the result holds the
\* answer of question 2, the table does not
C18_Witness ==
    /\ checklist_out.kind = "return"
    /\ checklist = ETHICAL_CHECKLIST
    /\ answers = <<<<2, "partial">>>>
    /\ "answer" \notin DOMAIN checklist[2]
    /\ checklist_out.full_checklist_results[2].answer = "partial"

\* the pillars referenced by at least one question of the table
PillarsOf(table) == {table[i].pillar : i \in 1..Len(table)}

RECURSIVE SumOverRows(_, _, _)
\* the sum of field f (doubled when it is the weight, to count half points)
\* over the rows of the given indices
SumOverRows(full, rows, f) ==
    IF rows = {} THEN 0
    ELSE LET i == CHOOSE i \in rows : TRUE
         IN  (IF f = "weight" THEN 2 * full[i].weight ELSE full[i].points_earned)
             + SumOverRows(full, rows \ {i}, f)

\* C15: the pillar diagnostic built from full_checklist_results has exactly
\* one entry for every pillar referenced by a checklist question, also when
\* the pillar earned nothing; an entry's earned and max are the sums of
\* points_earned and weight over the pillar's questions, and its percentage
\* is earned / max * 100, or 0 when max is 0, without raising.
C15_PillarDiagnostic ==
    pillar_diagnostic # NotCalled =>
        LET full == checklist_out.full_checklist_results
            pd == pillar_diagnostic
        IN  /\ pd.kind = "return"
            /\ {pd.pillars[i] : i \in 1..Len(pd.pillars)} = PillarsOf(checklist)
            /\ Len(pd.pillars) = Cardinality(PillarsOf(checklist))
            /\ Len(pd.values) = Len(pd.pillars)
            /\ \A i \in 1..Len(pd.pillars) :
                   LET rows == {j \in 1..Len(full) : full[j].pillar = pd.pillars[i]}
                       earned == SumOverRows(full, rows, "points_earned")
                       max == SumOverRows(full, rows, "weight")
                   IN  /\ pd.pill[i].pillar = pd.pillars[i]
                       /\ pd.pill[i].earned = earned
                       /\ pd.pill[i].max = max
                       /\ pd.values[i].den > 0
                       /\ IF max = 0 THEN pd.values[i].num = 0
                          ELSE pd.values[i].num * max = earned * 100 * pd.values[i].den

\* the diagnostic of an evaluation in which the Fairness pillar earned
\* nothing while another pillar did: Fairness is listed with 0
C15_Witness ==
    /\ pillar_diagnostic.kind = "return"
    /\ checklist = ETHICAL_CHECKLIST
    /\ answers = <<<<1, "yes">>>>
    /\ \E i \in 1..Len(pillar_diagnostic.pillars) :
           /\ pillar_diagnostic.pillars[i] = "Fairness"
           /\ pillar_diagnostic.pill[i].earned = 0
           /\ pillar_diagnostic.values[i].num = 0
    /\ Len(pillar_diagnostic.pillars) = 5

\* a run of the Ethical Checklist page that evaluates the selected model
EvaluationStep == current_page' = "3. Ethical Checklist" /\ vars' # vars

\* C16: after any sequence of evaluations the accumulator holds at most one
\* entry per model and the entry of a model is the result of its most recent
\* evaluation.  Every evaluation leaves the entry of the evaluated model
\* equal to the result just computed, whatever entry it had, adds no second
\* entry for a model that already had one, and keeps the entries of the
\* models it did not evaluate, which are therefore their latest results too.
C16_LatestEvaluationOnly ==
    [][EvaluationStep =>
          LET old == ethical_evaluation_results
              new == ethical_evaluation_results'
              m == selected_model'
          IN  /\ DOMAIN new = DOMAIN old \cup {m}
              /\ new[m] = StoredEvaluation(checklist_out', TierValue(tier_df', m))
              /\ m \in DOMAIN old => Cardinality(DOMAIN new) = Cardinality(DOMAIN old)
              /\ \A other \in DOMAIN old \ {m} : new[other] = old[other]
    ]_vars

\* two models have been evaluated; the entry of the one on screen is the
\* evaluation just made (all answers yes), the other entry is a different one
C16_Witness ==
    /\ current_page = "3. Ethical Checklist"
    /\ selected_model = "Credit Default XGBoost"
    /\ DOMAIN ethical_evaluation_results = {"Credit Default XGBoost", "Trading RL Agent"}
    /\ ethical_evaluation_results[selected_model].grade = "A"
    /\ ethical_evaluation_results[selected_model].gaps = 0
    /\ ethical_evaluation_results["Trading RL Agent"].grade = "F"
    /\ checklist_out.gaps_count = 0

\* C17: tier_model depends only on the five risk attributes.  Two calls with
\* the same attributes, made in either order and under the same or another
\* model_name, end the same way and, when they return, return the same
\* score, tier and governance_requirements.
C17_DependsOnlyOnAttributes ==
    (tier_out # NotCalled /\ tier_again # NotCalled) =>
        /\ tier_again.kind = tier_out.kind
        /\ tier_out.kind = "return" =>
               /\ tier_again.score = tier_out.score
               /\ tier_again.tier = tier_out.tier
               /\ tier_again.governance_requirements = tier_out.governance_requirements
        /\ Raised(tier_out) => tier_again = tier_out

\* both calls have returned, under different model names, for a client-facing
\* profile
C17_Witness ==
    /\ tier_out.kind = "return"
    /\ tier_again.kind = "return"
    /\ tier_again.model # tier_out.model
    /\ profile.client_facing
    /\ tier_again.score = tier_out.score

\* C21: when every answer is no, and equally when the mapping is empty,
\* apply_ethical_checklist returns raw_score 0, percentage 0, grade F and
\* gaps_count 10.
C21_AllNoOrEmpty ==
    (/\ checklist_out # NotCalled
     /\ \/ answers = <<>>
        \/ DictKeys(answers) = 1..10 /\ \A i \in 1..Len(answers) : answers[i][2] = "no")
    =>  /\ checklist_out.kind = "return"
        /\ checklist_out.raw_score = 0
        /\ checklist_out.score_percentage.num = 0
        /\ checklist_out.score_percentage.den > 0
        /\ checklist_out.grade = "F"
        /\ checklist_out.gaps_count = 10
        /\ Len(checklist_out.gaps_details) = 10

\* the empty mapping has been scored
C21_Witness ==
    /\ answers = <<>>
    /\ checklist_out.kind = "return"
    /\ checklist_out.grade = "F"
    /\ checklist_out.gaps_count = 10

\* the row of the tier table that tier_model gives for one profile alone
RowOf(p) ==
    LET r == tier_model(p.model_name, p.decision_impact, p.autonomy_level,
                        p.regulatory_exposure, p.client_facing, p.financial_impact_usd)
    IN  [model |-> r.model, score |-> r.score, tier |-> r.tier,
         governance_requirements |-> r.governance_requirements]

\* C22: get_model_tiers_dataframe returns exactly one row per submitted
\* profile, in submission order, each equal to tier_model applied to that
\* profile alone; if any profile of the batch is invalid the whole call
\* fails and no partial collection is returned.
C22_BatchTiering ==
    batch_out # NotCalled =>
        IF \A i \in 1..Len(batch) : ValidProfile(batch[i])
        THEN /\ batch_out.kind = "return"
             /\ Len(batch_out.rows) = Len(batch)
             /\ \A i \in 1..Len(batch) : batch_out.rows[i] = RowOf(batch[i])
        ELSE /\ Raised(batch_out)
             /\ "rows" \notin DOMAIN batch_out

\* a batch of three valid profiles, two of them equal, has been tiered
C22_Witness ==
    /\ batch_out.kind = "return"
    /\ Len(batch) = 3
    /\ batch[1] = COURSE_MODELS_PARAMS[3]
    /\ batch[2] = COURSE_MODELS_PARAMS[1]
    /\ batch[3] = COURSE_MODELS_PARAMS[3]
    /\ batch_out.rows[2].tier = 1
    /\ batch_out.rows[3].tier = 3

\* the decision a recommendation text of either page stands for
Decision(rec) ==
    CASE IsBlocked(rec) -> "blocked"
      [] rec \in {"Deployable with controls (committee sign-off + monitoring + evidence pack required)",
                  "**Deployable with controls** (committee sign-off + monitoring + evidence pack required)"}
            -> "deployable with controls"
      [] rec \in {"Deployable (subject to standard monitoring + documentation)",
                  "**Deployable** (subject to standard monitoring + documentation)"}
            -> "deployable"
      [] rec \in {"Deployable with remediation plan and defined owners",
                  "**Deployable with remediation plan** and defined owners"}
            -> "deployable with remediation plan"
      [] rec \in {"Not production-ready without remediation",
                  "**Not production-ready** without remediation"}
            -> "not production-ready"
      [] OTHER -> "unknown"

\* the answers a stored evaluation was computed from
StoredAnswers(r) == [i \in 1..Len(r.full) |-> <<r.full[i].id, r.full[i].answer>>]

\* C23: for every stored evaluation the recommendation of the Final Report
\* page is the same decision as the recommendation the Ethical Checklist page
\* shows for that evaluation.
C23_SameDecisionOnBothPages ==
    current_page = "7. Final Report" =>
        \A m \in DOMAIN report_recs :
            LET r == ethical_evaluation_results[m]
            IN  Decision(report_recs[m])
                  = Decision(ChecklistRecommendation(r.tier, StoredAnswers(r), r))

\* C24: for every valid profile, S_total of compute_tier_breakdown equals the
\* score of tier_model for the same profile and is the sum of the five
\* components shown, so each row of the decomposition table sums to the
\* score of the same row of the tier table.
C24_BreakdownMatchesScore ==
    /\ (tier_out # NotCalled /\ breakdown_out # NotCalled /\ ValidProfile(profile)) =>
           /\ tier_out.kind = "return"
           /\ breakdown_out.kind = "return"
           /\ breakdown_out.S_total = tier_out.score
           /\ breakdown_out.S_total =
                  breakdown_out.S_impact + breakdown_out.S_autonomy
                  + breakdown_out.S_regulatory + breakdown_out.S_client_facing
                  + breakdown_out.S_financial_impact
    /\ Len(tier_breakdown_df) = Len(tier_df)
    /\ \A i \in 1..Len(tier_df) :
           /\ tier_breakdown_df[i].Model = tier_df[i].model
           /\ tier_breakdown_df[i].S_total = tier_df[i].score

\* both functions have returned for a profile whose amount is exactly the
\* 1,000,000 threshold
C24_Witness ==
    /\ tier_out.kind = "return"
    /\ breakdown_out.kind = "return"
    /\ profile.financial_impact_usd = 1000000 * FinScale
    /\ breakdown_out.S_financial_impact = 1
    /\ breakdown_out.S_total = tier_out.score

\* the valid profiles among the inputs
ValidProfileInputs == {p \in ProfileInputs : ValidProfile(p)}

\* the scores and the tiers tier_model returns over the valid profiles
ReturnedScores == {RowOf(p).score : p \in ValidProfileInputs}
ReturnedTiers == {RowOf(p).tier : p \in ValidProfileInputs}

\* C25: for every valid profile the score of tier_model is an integer between
\* 2 and 18 and the tier is 1, 2 or 3; every score of 2..18 and each of the
\* three tiers is returned for at least one valid profile.
C25_ScoreAndTierRanges ==
    /\ (tier_out # NotCalled /\ ValidProfile(profile)) =>
           /\ tier_out.kind = "return"
           /\ tier_out.score \in 2..18
           /\ tier_out.tier \in {1, 2, 3}
    /\ ReturnedScores = 2..18
    /\ ReturnedTiers = {1, 2, 3}

\* tier_model has returned the lowest score, 2, and with it tier 3
C25_Witness ==
    /\ tier_out.kind = "return"
    /\ tier_out.score = 2
    /\ tier_out.tier = 3

\* the order F < C < B < A of the grades
GradeRank(grade) ==
    CASE grade = "F" -> 0 [] grade = "C" -> 1 [] grade = "B" -> 2 [] grade = "A" -> 3

\* C26: scoring is monotone in each answer.  With the other nine answers
\* fixed, raising one answer from no to partial or from partial to yes
\* strictly increases raw_score and score_percentage, never lowers the grade
\* and never increases gaps_count.
C26_MonotoneInEachAnswer ==
    checklist_up # NotCalled =>
        LET low == checklist_out
            high == checklist_up
        IN  /\ low.kind = "return" /\ high.kind = "return"
            /\ Cardinality({id \in 1..10 : Resolved(answers_up, id) # Resolved(answers, id)}) = 1
            /\ high.raw_score > low.raw_score
            /\ high.score_percentage.num * low.score_percentage.den
                   > low.score_percentage.num * high.score_percentage.den
            /\ GradeRank(high.grade) >= GradeRank(low.grade)
            /\ high.gaps_count <= low.gaps_count

\* raising the answer of question 1 from no to partial, all others being
\* yes, has moved the score from 19 to 20.5 and the grade from B to A; the
\* question remains the only gap
C26_Witness ==
    /\ checklist_up.kind = "return"
    /\ Resolved(answers, 1) = "no"
    /\ Resolved(answers_up, 1) = "partial"
    /\ checklist_out.raw_score = 38
    /\ checklist_up.raw_score = 41
    /\ checklist_out.grade = "B"
    /\ checklist_up.grade = "A"
    /\ checklist_out.gaps_count = 1
    /\ checklist_up.gaps_count = 1

\* the tier tier_model assigns to the profile of each configured model
ConfiguredTier ==
    [m \in {COURSE_MODELS_PARAMS[i].model_name : i \in 1..Len(COURSE_MODELS_PARAMS)} |->
        RowOf(CHOOSE p \in {COURSE_MODELS_PARAMS[i] : i \in 1..Len(COURSE_MODELS_PARAMS)} :
                  p.model_name = m).tier]

\* C27: in every reachable session state each entry of the accumulator is
\* keyed by one of the six configured model names and its stored tier is the
\* tier tier_model assigns to that model's profile, never None; the Tier 1,
\* Tier 2 and Tier 3 counts of the Final Report therefore sum to the number
\* of evaluated models.
C27_StoredTiers ==
    /\ Cardinality(DOMAIN ConfiguredTier) = 6
    /\ \A m \in DOMAIN ethical_evaluation_results :
           /\ m \in DOMAIN ConfiguredTier
           /\ ethical_evaluation_results[m].tier = ConfiguredTier[m]
           /\ ConfiguredTier[m] \in {1, 2, 3}
    /\ TierCount(ethical_evaluation_results, 1) + TierCount(ethical_evaluation_results, 2)
           + TierCount(ethical_evaluation_results, 3)
         = TotalModels(ethical_evaluation_results)

\* the Final Report is shown with a tier 1 and a tier 3 model evaluated
C27_Witness ==
    /\ current_page = "7. Final Report"
    /\ DOMAIN ethical_evaluation_results
           = {"Credit Default XGBoost", "News Sentiment (FinBERT)"}
    /\ ethical_evaluation_results["Credit Default XGBoost"].tier = 1
    /\ ethical_evaluation_results["News Sentiment (FinBERT)"].tier = 3
    /\ TierCount(ethical_evaluation_results, 1) = 1
    /\ TierCount(ethical_evaluation_results, 3) = 1

\* C28: evaluating a model on the Ethical Checklist page changes only that
\* model's entry of the accumulator; the entries of the other models and the
\* tier table computed at session start are unchanged, and no other page
\* adds, changes or removes an entry.
C28_EvaluationFrame ==
    [][/\ tier_df' = tier_df
       /\ current_page' # "3. Ethical Checklist" =>
              ethical_evaluation_results' = ethical_evaluation_results
       /\ current_page' = "3. Ethical Checklist" =>
              /\ DOMAIN ethical_evaluation_results \subseteq DOMAIN ethical_evaluation_results'
              /\ DOMAIN ethical_evaluation_results' \ DOMAIN ethical_evaluation_results
                     \subseteq {selected_model'}
              /\ \A m \in DOMAIN ethical_evaluation_results \ {selected_model'} :
                     ethical_evaluation_results'[m] = ethical_evaluation_results[m]
    ]_vars

\* the Trading RL Agent has just been evaluated (all answers no) in a session
\* that had evaluated Credit Default XGBoost before: that entry is still there
C28_Witness ==
    /\ current_page = "3. Ethical Checklist"
    /\ selected_model = "Trading RL Agent"
    /\ checklist_out.grade = "F"
    /\ DOMAIN ethical_evaluation_results = {"Credit Default XGBoost", "Trading RL Agent"}
    /\ ethical_evaluation_results["Credit Default XGBoost"].grade = "A"
    /\ ethical_evaluation_results["Credit Default XGBoost"].tier = 1
    /\ ethical_evaluation_results["Trading RL Agent"].grade = "F"

RECURSIVE SumOverPillars(_, _, _)
\* the sum of field f over the first n entries of the diagnostic
SumOverPillars(pill, n, f) ==
    IF n = 0 THEN 0
    ELSE SumOverPillars(pill, n - 1, f) + (IF f = "max" THEN pill[n].max ELSE pill[n].earned)

\* C29: the per-pillar sums of the pillar diagnostic partition the overall
\* result: the earned sums add up to raw_score, the max sums add up to
\* max_possible_score, and every question is counted in exactly one pillar.
C29_PillarsPartitionResult ==
    pillar_diagnostic # NotCalled =>
        LET pill == pillar_diagnostic.pill
            full == checklist_out.full_checklist_results
        IN  /\ SumOverPillars(pill, Len(pill), "earned") = checklist_out.raw_score
            /\ SumOverPillars(pill, Len(pill), "max") = checklist_out.max_possible_score
            /\ \A j \in 1..Len(full) :
                   Cardinality({i \in 1..Len(pill) : pill[i].pillar = full[j].pillar}) = 1
            /\ \A i \in 1..Len(pill) :
                   pill[i].max = SumOverRows(full, {j \in 1..Len(full) :
                                                       full[j].pillar = pill[i].pillar}, "weight")

\* the diagnostic of an evaluation of the full table with every answer yes
\* but the last two: five pillars sharing 18 of 22 points
C29_Witness ==
    /\ pillar_diagnostic.kind = "return"
    /\ checklist = ETHICAL_CHECKLIST
    /\ checklist_out.raw_score = 36
    /\ checklist_out.max_possible_score = 44
    /\ Len(pillar_diagnostic.pill) = 5
    /\ SumOverPillars(pillar_diagnostic.pill, 5, "earned") = 36

====
